---- MODULE Spec2Model ----
(***************************************************************************)
(* A model of the decision/simulation core of Cursor-Trading-Bot:          *)
(*   - RiskManager             (src/src/bot/risk_manager.py)               *)
(*   - BollingerBandStrategy   (src/src/bot/strategy.py)                   *)
(*   - MLModel's lifecycle     (src/src/ml/model.py)                       *)
(*   - BacktestEngine.run_backtest          (src/backtest/backtest_engine.py)          *)
(*   - CoinGeckoBacktestEngine.run_backtest (src/backtest/coingecko_backtest_engine.py)*)
(*   - the metrics both engines return at the end of a run                 *)
(* and of clients calling RiskManager, MLModel and BollingerBandStrategy    *)
(* directly.                                                               *)
(*                                                                         *)
(* Python floats are modelled as exact rationals <<numerator, denominator>>*)
(* kept in lowest terms with a positive denominator.                       *)
(***************************************************************************)
EXTENDS Integers, Sequences, FiniteSets

VARIABLES
    mode,            \* which object was constructed: "backtest", "coingecko", "risk"
                     \* (a RiskManager), "model" (an MLModel) or "strategy"
                     \* (a BollingerBandStrategy)
    pc,              \* position of run_backtest: "new", "run" (in the loop), "done"
                     \* (returned) or "failed" (left by an exception)
    now,             \* the calendar day datetime.now() falls on (wall clock)
    quiet,           \* shape of the fetched data: length of its flat prefix
    n,               \* number of candles the loop has taken from data (i = n - 1)
    closes,          \* the last (at most window) closes of data.iloc[:i+1]
    rm,              \* the RiskManager: parameters and trading state
    ml,              \* the MLModel: min_samples, is_trained, last_training_time
    current_balance, \* engine.current_balance
    current_position,\* engine.current_position
    trade,           \* BacktestEngine.run_backtest's local `trade`
    cg,              \* CoinGeckoBacktestEngine's position_size and entry_price
    trades,          \* engine.trades
    equity_curve,    \* engine.equity_curve
    sig,             \* the signals of the step just processed
    last_call,       \* the last RiskManager call made by a client, with its result
    calls,           \* number of RiskManager calls made by the client
    metrics,         \* the metrics record run_backtest returns
    strategy         \* the BollingerBandStrategy: its config, window and window_dev

vars == <<mode, pc, now, quiet, n, closes, rm, ml, current_balance,
          current_position, trade, cg, trades, equity_curve, sig, last_call, calls,
          metrics, strategy>>

-----------------------------------------------------------------------------
(* Bounds of the model.                                                    *)

\* number of candles after the flat prefix whose close is chosen freely
MaxFree == 4
\* number of midnights the wall clock may pass during a run
MaxTicks == 1
\* number of calls a client makes to a RiskManager or an MLModel
MaxCalls == 3
\* number of rows of the frame a client passes to a BollingerBandStrategy
MaxRows == 11

-----------------------------------------------------------------------------
(* Float arithmetic as exact rational arithmetic.                          *)

Abs(x) == IF x < 0 THEN -x ELSE x

RECURSIVE GCD(_, _)
GCD(a, b) == IF b = 0 THEN a ELSE GCD(b, a % b)

\* the rational num/den in lowest terms, den # 0
Rat(num, den) ==
    LET g == GCD(Abs(num), Abs(den))
        s == IF den < 0 THEN -1 ELSE 1
    IN  <<(s * num) \div g, (s * den) \div g>>

R(k) == <<k, 1>>
Zero == R(0)
RAdd(a, b) ==
    IF a[2] = b[2] THEN Rat(a[1] + b[1], a[2])
    ELSE LET g == GCD(a[2], b[2])
         IN  Rat(a[1] * (b[2] \div g) + b[1] * (a[2] \div g), (a[2] \div g) * b[2])
RNeg(a) == <<-a[1], a[2]>>
RSub(a, b) == RAdd(a, RNeg(b))
RMul(a, b) ==
    IF a[2] = 1 /\ b[2] = 1 THEN <<a[1] * b[1], 1>>
    ELSE LET x == Rat(a[1], b[2])
             y == Rat(b[1], a[2])
         IN  <<x[1] * y[1], x[2] * y[2]>>
RDiv(a, b) ==
    IF a[2] = 1 /\ b[2] = 1 THEN Rat(a[1], b[1]) ELSE RMul(a, Rat(b[2], b[1]))
RLe(a, b) == a[1] * b[2] <= b[1] * a[2]
RLt(a, b) == a[1] * b[2] < b[1] * a[2]
RAbs(a) == <<Abs(a[1]), a[2]>>
RMin(a, b) == IF RLe(a, b) THEN a ELSE b

-----------------------------------------------------------------------------
(* Program constants.                                                      *)

\* BollingerBandStrategy.window and window_dev (= DevNum / DevDen = 0.5)
Window == 10
DevNum == 1
DevDen == 2
\* warm-up lengths of the two loops
MinHistoryBT == 26
MinHistoryCG == 20
\* BacktestEngine's MLModel configuration
RetrainInterval == 24
MinSamples == 100
\* BacktestEngine fetches the last FetchLimit candles of CandleMinutes minutes
CandleMinutes == 5
FetchLimit == 1000
CandlesPerDay == (24 * 60) \div CandleMinutes
\* BacktestEngine sizes every entry with confidence 1.0
BTConfidence == R(1)
\* CoinGeckoBacktestEngine puts 10% of the balance into every position
CGFraction == Rat(1, 10)
\* MLModel labels a row with the return over the next LabelHorizon rows
LabelHorizon == 5

\* the risk configurations the repository constructs a RiskManager with
BTRiskConfig ==
    [max_daily_trades |-> 100, max_daily_loss |-> 10, base_risk |-> 1, max_risk |-> 5]
CGRiskConfig ==
    [max_daily_trades |-> 10, max_daily_loss |-> 5, base_risk |-> 1, max_risk |-> 2]

\* the configurations the two engines construct their BollingerBandStrategy with
BTStrategyConfig == [fast_period |-> 6, slow_period |-> 18, signal_period |-> 6]
CGStrategyConfig == [bb_window |-> 10, bb_deviation |-> Rat(1, 2)]

-----------------------------------------------------------------------------
(* Inputs.                                                                 *)

\* closes of the candles
Prices == {100, 130}
InitialBalance == R(1000)
\* lengths of the flat prefix: none, up to two candles before the end of the
\* warm-up, up to two candles before the first training of the model
BTQuiets == {0, MinHistoryBT - 2, 5 * RetrainInterval - 2}
CGQuiets == {0, MinHistoryCG - 2}
\* the symbols, balances, confidences, prices and sizes a RiskManager client passes
Symbols == {"ETHUSDT", "BTCUSDT"}
Balances == {R(0), R(1000), R(-500)}
Confidences == {R(0), Rat(1, 2), R(1)}
Sizes == {R(50), R(1300)}
\* lengths of the windows a client passes to MLModel.train
TrainLengths ==
    {MinSamples - 1, MinSamples, MinSamples + LabelHorizon - 1,
     MinSamples + LabelHorizon}
\* risk configurations a client may construct a RiskManager with
ClientRiskConfigs ==
    { [max_daily_trades |-> 2, max_daily_loss |-> 5, base_risk |-> 1, max_risk |-> 5],
      [max_daily_trades |-> 2, max_daily_loss |-> 5, base_risk |-> 5, max_risk |-> 1],
      [max_daily_trades |-> 2, max_daily_loss |-> 5, base_risk |-> 50, max_risk |-> 200] }

\* configurations a client may construct a BollingerBandStrategy with: the
\* window length and the deviation multiplier
StrategyConfigs ==
    { [bb_window |-> 10, bb_deviation |-> Rat(1, 2)],
      [bb_window |-> 20, bb_deviation |-> R(2)] }

-----------------------------------------------------------------------------
(* RiskManager.                                                            *)

\* RiskManager.__init__
NewRiskManager(config, today) ==
    [ max_daily_trades |-> config.max_daily_trades,
      max_daily_loss   |-> config.max_daily_loss,
      base_risk        |-> config.base_risk,
      max_risk         |-> config.max_risk,
      daily_trades     |-> 0,
      daily_pnl        |-> Zero,
      last_reset       |-> today,
      open_positions   |-> {} ]

\* RiskManager.reset_daily_metrics
ResetDailyMetrics(r, today) ==
    [r EXCEPT !.daily_trades = 0, !.daily_pnl = Zero, !.last_reset = today]

\* RiskManager.update_daily_metrics
UpdateDailyMetrics(r, today) ==
    IF today > r.last_reset THEN ResetDailyMetrics(r, today) ELSE r

\* risk_percentage of calculate_position_size
RiskPercentage(r, confidence) ==
    RAdd(R(r.base_risk), RMul(R(r.max_risk - r.base_risk), confidence))

\* mutant of PositionSize: the cap at the balance is missing
PositionSizeUncapped(r, account_balance, confidence) ==
    IF r.daily_trades >= r.max_daily_trades
    THEN Zero
    ELSE RMul(account_balance, RDiv(RiskPercentage(r, confidence), R(100)))

\* the value calculate_position_size returns once update_daily_metrics has run
PositionSize(r, account_balance, confidence) ==
    IF r.daily_trades >= r.max_daily_trades
    THEN Zero
    ELSE RMin(RMul(account_balance, RDiv(RiskPercentage(r, confidence), R(100))),
              account_balance)

\* `symbol in self.open_positions`
HasPosition(r, symbol) == \E p \in r.open_positions : p.symbol = symbol
PositionOf(r, symbol) == CHOOSE p \in r.open_positions : p.symbol = symbol

\* mutant of CanOpen: one trade more than the limit is let through
CanOpenPastLimit(r, symbol, account_balance) ==
    IF HasPosition(r, symbol) THEN FALSE
    ELSE IF r.daily_trades > r.max_daily_trades THEN FALSE
    ELSE IF RLe(r.daily_pnl,
                RDiv(RMul(R(-r.max_daily_loss), account_balance), R(100))) THEN FALSE
    ELSE TRUE

\* the value can_open_position returns once update_daily_metrics has run
CanOpen(r, symbol, account_balance) ==
    IF HasPosition(r, symbol) THEN FALSE
    ELSE IF r.daily_trades >= r.max_daily_trades THEN FALSE
    ELSE IF RLe(r.daily_pnl,
                RDiv(RMul(R(-r.max_daily_loss), account_balance), R(100))) THEN FALSE
    ELSE TRUE

\* RiskManager.update_position
UpdatePosition(r, symbol, entry_price, current_price, position_size, today) ==
    [r EXCEPT
        !.open_positions =
            {p \in r.open_positions : p.symbol # symbol} \cup
            {[symbol |-> symbol, entry_price |-> entry_price,
              current_price |-> current_price, position_size |-> position_size,
              entry_time |-> today]},
        !.daily_trades = r.daily_trades + 1]

\* mutant of PositionPnl: measured from the recorded current price
PositionPnlFromCurrent(position, exit_price) ==
    RMul(position.position_size,
         RDiv(R(exit_price - position.current_price), R(position.current_price)))

\* pnl of close_position
PositionPnl(position, exit_price) ==
    RMul(position.position_size,
         RDiv(R(exit_price - position.entry_price), R(position.entry_price)))

\* mutant of ClosePosition: the position record is kept
ClosePositionKeepsRecord(r, symbol, exit_price) ==
    [r EXCEPT
        !.daily_pnl = RAdd(r.daily_pnl, PositionPnl(PositionOf(r, symbol), exit_price))]

\* what close_position returns when no position is recorded for the symbol
NoPosition == "None"

\* RiskManager.close_position on a recorded position
ClosePosition(r, symbol, exit_price) ==
    [r EXCEPT
        !.daily_pnl = RAdd(r.daily_pnl, PositionPnl(PositionOf(r, symbol), exit_price)),
        !.open_positions = {p \in r.open_positions : p.symbol # symbol}]

-----------------------------------------------------------------------------
(* BollingerBandStrategy.                                                  *)

\* BollingerBandStrategy.__init__
NewBollingerBandStrategy(config) ==
    [config |-> config, window |-> Window, window_dev |-> Rat(DevNum, DevDen)]

RECURSIVE SumSeq(_)
SumSeq(s) == IF s = <<>> THEN 0 ELSE s[1] + SumSeq(Tail(s))
RECURSIVE SumSq(_)
SumSq(s) == IF s = <<>> THEN 0 ELSE s[1] * s[1] + SumSq(Tail(s))

\* the bands are defined once `window` closes are there (NaN before)
BandsDefined(w) == Len(w) >= Window

\* close <= bb_middle, the rolling mean of the last `window` closes
AtOrBelowMiddle(w) == Window * w[Len(w)] <= SumSeq(w)

\* close >= bb_upper = mean + window_dev * (population) standard deviation, i.e.
\* Window*close - sum >= (DevNum/DevDen) * sqrt(Window*sumsq - sum^2)
AtOrAboveUpper(w) ==
    LET d == Window * w[Len(w)] - SumSeq(w)
    IN  /\ d >= 0
        /\ DevDen * DevDen * d * d >=
               DevNum * DevNum * (Window * SumSq(w) - SumSeq(w) * SumSeq(w))

\* mutant of LatestSignal: the buy assignment comes last and wins
LatestSignalLongFirst(w) ==
    LET sell == IF BandsDefined(w) /\ AtOrAboveUpper(w) THEN -1 ELSE 0
    IN  IF BandsDefined(w) /\ AtOrBelowMiddle(w) THEN 1 ELSE sell

\* the latest value of the 'signal' column after generate_signals
LatestSignal(w) ==
    LET buy  == IF BandsDefined(w) /\ AtOrBelowMiddle(w) THEN 1 ELSE 0
    IN  IF BandsDefined(w) /\ AtOrAboveUpper(w) THEN -1 ELSE buy

\* mutant of TradeRecommendation: the confidence is 1.0 whatever the signal
TradeRecommendationSure(w) ==
    IF w = <<>> THEN <<0, R(0)>> ELSE <<LatestSignal(w), R(1)>>

\* BollingerBandStrategy.get_trade_recommendation
TradeRecommendation(w) ==
    IF w = <<>> THEN <<0, R(0)>>
    ELSE <<LatestSignal(w), IF LatestSignal(w) # 0 THEN R(1) ELSE R(0)>>

\* the closes the strategy sees after one more candle: the last `window` of them
Slide(w, close) ==
    LET a == Append(w, close)
    IN  IF Len(a) > Window THEN Tail(a) ELSE a

-----------------------------------------------------------------------------
(* MLModel.                                                                *)

\* MLModel.__init__
NewMLModel(min_samples) ==
    [min_samples |-> min_samples, is_trained |-> FALSE, last_training_time |-> -1]

\* MLModel.train on a window of `len` rows
Train(m, len, today) ==
    IF len < m.min_samples THEN m
    ELSE [m EXCEPT !.is_trained = TRUE, !.last_training_time = today]

\* MLModel.train raises what computing the features or fitting raises, once the
\* window is long enough to be trained on
TrainRaises(m, len, raises) == len >= m.min_samples /\ raises

\* MLModel.predict: the signal; `outcome` is what the fitted classifier yields,
\* and an exception is caught and answered with (0.0, 0.0)
Predict(m, outcome, raises) ==
    IF ~m.is_trained THEN 0
    ELSE IF raises THEN 0
    ELSE outcome

MLOutcomes == {-1, 0, 1}

-----------------------------------------------------------------------------
(* BacktestEngine.run_backtest, one iteration at a time.                   *)

\* mutant of SkipCandle: the warm-up ends once the bands are defined
SkipCandleUntilBands(len, min_history) == len < Window

\* `if len(current_data) < 26: continue`
SkipCandle(len, min_history) == len < min_history

\* `i % retrain_interval == 0 and len(current_data) >= self.ml_model.min_samples`
TrainsAt(i, len, m) == i % RetrainInterval = 0 /\ len >= m.min_samples

\* mutant of Fuse: the Short test comes first
FuseShortFirst(macd_signal, ml_signal) ==
    IF macd_signal < 0 \/ ml_signal < 0 THEN -1
    ELSE IF macd_signal > 0 \/ ml_signal > 0 THEN 1
    ELSE 0

\* final_signal
Fuse(macd_signal, ml_signal) ==
    IF macd_signal > 0 \/ ml_signal > 0 THEN 1
    ELSE IF macd_signal < 0 \/ ml_signal < 0 THEN -1
    ELSE 0

\* mutant of ExitPnl: the direction of the position is dropped
ExitPnlUnsigned(position, close, entry_price) ==
    RMul(RAbs(position), R(close - entry_price))

\* pnl on exit
ExitPnl(position, close, entry_price) == RMul(position, R(close - entry_price))

\* trade['return_pct']
ReturnPct(pnl, position, entry_price) ==
    RMul(RDiv(pnl, RMul(RAbs(position), R(entry_price))), R(100))

\* mutant of ExitSignalled: only a long position is ever exited
ExitSignalledLongOnly(position, final_signal) ==
    RLt(Zero, position) /\ final_signal < 0

\* mutant of BalanceAfterExit: the pnl of the closed trade is not credited
BalanceAfterExitUnchanged(balance, pnl) == balance

\* `self.current_balance += pnl` of both engines
BalanceAfterExit(balance, pnl) == RAdd(balance, pnl)

\* the exit condition of an open position
ExitSignalled(position, final_signal) ==
    \/ RLt(Zero, position) /\ final_signal < 0
    \/ RLt(position, Zero) /\ final_signal > 0

NoTrade == [direction |-> "none"]
NoCall == [op |-> "none"]
NoSignals == [macd |-> 0, ml |-> 0, final |-> 0]
NoMetrics == [total_trades |-> -1]

\* the calendar day of candle i, counted from the day of the first candle
CandleDay(i) == i \div CandlesPerDay

\* the day the engine is constructed on: the fetched candles end now
StartDay(m) == IF m = "backtest" THEN CandleDay(FetchLimit) ELSE 0

\* the close of the next candle of the data: within the flat prefix it repeats
\* the close before it
NextCloses ==
    IF n = 0 \/ n >= quiet THEN Prices ELSE {closes[Len(closes)]}

Init ==
    /\ mode \in {"backtest", "coingecko", "risk", "model", "strategy"}
    /\ pc = "new"
    /\ now = StartDay(mode)
    /\ quiet \in (CASE mode = "backtest" -> BTQuiets
                    [] mode = "coingecko" -> CGQuiets
                    [] OTHER -> {0})
    /\ n = 0
    /\ closes = <<>>
    /\ \E config \in (CASE mode = "risk" -> ClientRiskConfigs
                        [] mode = "coingecko" -> {CGRiskConfig}
                        [] OTHER -> {BTRiskConfig}) :
           rm = NewRiskManager(config, now)
    /\ ml = NewMLModel(MinSamples)
    /\ current_balance = InitialBalance
    /\ current_position = IF mode = "coingecko" THEN 0 ELSE Zero
    /\ trade = NoTrade
    /\ cg = [position_size |-> Zero, entry_price |-> 0]
    /\ trades = <<>>
    /\ equity_curve = <<>>
    /\ sig = NoSignals
    /\ last_call = NoCall
    /\ calls = 0
    /\ metrics = NoMetrics
    /\ \E config \in (CASE mode = "strategy" -> StrategyConfigs
                        [] mode = "backtest" -> {BTStrategyConfig}
                        [] OTHER -> {CGStrategyConfig}) :
           strategy = NewBollingerBandStrategy(config)

\* the wall clock passes midnight (while the program still has calls to make)
Tick ==
    /\ now < StartDay(mode) + MaxTicks
    /\ pc \notin {"done", "failed"} /\ calls < MaxCalls
    /\ mode # "strategy"
    /\ now' = now + 1
    /\ UNCHANGED <<mode, pc, quiet, n, closes, rm, ml, current_balance,
                   current_position, trade, cg, trades, equity_curve, sig,
                   last_call, calls,
                   metrics, strategy>>

\* run_backtest up to its loop: the tracking variables are initialised
Begin ==
    /\ mode \in {"backtest", "coingecko"}
    /\ pc = "new"
    /\ pc' = "run"
    /\ current_balance' = InitialBalance
    /\ current_position' = IF mode = "coingecko" THEN 0 ELSE Zero
    /\ cg' = [position_size |-> Zero, entry_price |-> 0]
    /\ trades' = <<>>
    /\ equity_curve' = <<InitialBalance>>
    /\ UNCHANGED <<mode, now, quiet, n, closes, rm, ml, trade, sig,
                   last_call, calls,
                   metrics, strategy>>

\* one iteration of BacktestEngine.run_backtest's loop, on candle i = n; `raises`
\* says whether computing the model's features on this window raises
BTStep ==
    /\ mode = "backtest"
    /\ pc = "run"
    /\ n < quiet + MaxFree
    /\ \E close \in NextCloses, outcome \in MLOutcomes, raises \in BOOLEAN :
        LET i    == n
            hist == Slide(closes, close)
            len  == n + 1
        IN
        /\ n' = len
        /\ closes' = hist
        /\ IF SkipCandle(len, MinHistoryBT)
           THEN UNCHANGED <<pc, rm, ml, current_balance, current_position, trade,
                            trades, equity_curve, sig>>
           ELSE IF TrainsAt(i, len, ml) /\ TrainRaises(ml, len, raises)
           \* the exception of train propagates out of run_backtest
           THEN /\ pc' = "failed"
                /\ UNCHANGED <<rm, ml, current_balance, current_position, trade,
                               trades, equity_curve, sig>>
           ELSE
             LET ml1     == IF TrainsAt(i, len, ml) THEN Train(ml, len, now) ELSE ml
                 macd    == TradeRecommendation(hist)[1]
                 macd_confidence == TradeRecommendation(hist)[2]
                 mls     == Predict(ml1, outcome, raises)
                 final   == Fuse(macd, mls)
                 opening == final # 0 /\ current_position = Zero
                 rm1     == UpdateDailyMetrics(rm, now)
                 size    == PositionSize(rm1, current_balance, BTConfidence)
                 closing == /\ ~opening
                            /\ current_position # Zero
                            /\ ExitSignalled(current_position, final)
                 pnl     == ExitPnl(current_position, close, trade.entry_price)
             IN
             /\ pc' = pc
             /\ ml' = ml1
             /\ sig' = [macd |-> macd, confidence |-> macd_confidence, ml |-> mls,
                        final |-> final]
             /\ rm' = IF opening THEN rm1 ELSE rm
             /\ trade' =
                  IF opening
                  THEN [entry_date |-> i, entry_price |-> close,
                        position_size |-> size,
                        direction |-> IF final > 0 THEN "long" ELSE "short"]
                  ELSE IF closing
                  THEN [entry_date |-> trade.entry_date,
                        entry_price |-> trade.entry_price,
                        position_size |-> trade.position_size,
                        direction |-> trade.direction,
                        exit_date |-> i, exit_price |-> close, pnl |-> pnl,
                        return_pct |->
                            ReturnPct(pnl, current_position, trade.entry_price)]
                  ELSE trade
             /\ current_position' =
                  IF opening THEN (IF final > 0 THEN size ELSE RNeg(size))
                  ELSE IF closing THEN Zero
                  ELSE current_position
             /\ current_balance' =
                  IF closing THEN BalanceAfterExit(current_balance, pnl)
                  ELSE current_balance
             /\ trades' = IF closing THEN Append(trades, trade') ELSE trades
             /\ equity_curve' = Append(equity_curve, current_balance')
    /\ UNCHANGED <<mode, now, quiet, cg, last_call, calls,
                   metrics, strategy>>

-----------------------------------------------------------------------------
(* CoinGeckoBacktestEngine.run_backtest, one iteration at a time.          *)

\* pnl of _execute_trade / unrealized pnl of _update_equity_curve, short position
ShortPnl(entry_price, current_price, position_size) ==
    RMul(R(entry_price - current_price), RAbs(position_size))

\* pnl of _execute_trade / unrealized pnl of _update_equity_curve, long position
LongPnl(entry_price, current_price, position_size) ==
    RMul(R(current_price - entry_price), position_size)

\* position_size of a new position: 10% of the balance, in units of the asset
CGPositionSize(balance, current_price) ==
    RDiv(RMul(balance, CGFraction), R(current_price))

\* equity of _update_equity_curve
Equity(balance, position, entry_price, current_price, position_size) ==
    IF position > 0
    THEN RAdd(balance, LongPnl(entry_price, current_price, position_size))
    ELSE IF position < 0
    THEN RAdd(balance, ShortPnl(entry_price, current_price, position_size))
    ELSE balance

\* mutant of TradeSide: a signal is acted on only while no position is held
TradeSideWhenFlat(signal, position) ==
    IF signal = 1 /\ position = 0 THEN "buy"
    ELSE IF signal = -1 /\ position = 0 THEN "sell"
    ELSE "none"

\* the branch of _execute_trade a signal takes with the position held
TradeSide(signal, position) ==
    IF signal = 1 /\ position <= 0 THEN "buy"
    ELSE IF signal = -1 /\ position >= 0 THEN "sell"
    ELSE "none"

\* one iteration of CoinGeckoBacktestEngine.run_backtest's loop, on candle i = n
CGStep ==
    /\ mode = "coingecko"
    /\ pc = "run"
    /\ n < quiet + MaxFree
    /\ \E close \in NextCloses :
        LET i    == n
            hist == Slide(closes, close)
            len  == n + 1
        IN
        /\ n' = len
        /\ closes' = hist
        /\ IF SkipCandle(len, MinHistoryCG)
           THEN UNCHANGED <<current_balance, current_position, cg, trades,
                            equity_curve, sig>>
           ELSE
             LET signal == LatestSignal(hist)
                 buy    == TradeSide(signal, current_position) = "buy"
                 sell   == TradeSide(signal, current_position) = "sell"
                 \* _execute_trade: close what is held in the other direction
                 covers == buy /\ current_position < 0
                 sells  == sell /\ current_position > 0
                 pnl    == IF covers
                           THEN ShortPnl(cg.entry_price, close, cg.position_size)
                           ELSE LongPnl(cg.entry_price, close, cg.position_size)
                 bal1   == IF covers \/ sells
                           THEN BalanceAfterExit(current_balance, pnl)
                           ELSE current_balance
                 closed == IF covers \/ sells
                           THEN <<[time |-> i,
                                   type |-> IF covers THEN "close_short"
                                                      ELSE "close_long",
                                   price |-> close,
                                   size |-> IF covers THEN RAbs(cg.position_size)
                                                      ELSE cg.position_size,
                                   pnl |-> pnl]>>
                           ELSE <<>>
                 \* _execute_trade: open the new position
                 size   == CGPositionSize(bal1, close)
                 opened == <<[time |-> i,
                              type |-> IF buy THEN "buy" ELSE "sell",
                              price |-> close, size |-> size, pnl |-> Zero]>>
             IN
             /\ sig' = [macd |-> signal, ml |-> 0, final |-> signal]
             /\ current_balance' = bal1
             /\ cg' = IF buy \/ sell
                      THEN [position_size |-> size, entry_price |-> close]
                      ELSE cg
             /\ current_position' =
                  IF buy THEN 1 ELSE IF sell THEN -1 ELSE current_position
             /\ trades' = IF buy \/ sell THEN trades \o closed \o opened ELSE trades
             /\ equity_curve' =
                  Append(equity_curve,
                         Equity(current_balance', current_position', cg'.entry_price,
                                close, cg'.position_size))
    /\ UNCHANGED <<mode, pc, now, quiet, rm, ml, trade, last_call, calls,
                   metrics, strategy>>

-----------------------------------------------------------------------------
(* The metrics of the two engines.                                         *)

\* float('inf')
Infinity == <<1, 0>>

RMax(a, b) == IF RLe(a, b) THEN b ELSE a

RECURSIVE RSum(_)
RSum(s) == IF s = <<>> THEN Zero ELSE RAdd(s[1], RSum(Tail(s)))

\* The value mean(returns) / std(returns) * sqrt(periods) is kept as the
\* returns it is the quotient of, std being the standard deviation with `ddof`
\* delta degrees of freedom; a std of 0 means all returns are equal.
AllEqual(s) == \A k \in 1..Len(s) : s[k] = s[1]
Quotient(returns, ddof, periods) ==
    [kind |-> "ratio", returns |-> returns, ddof |-> ddof, periods |-> periods]
\* a reported ratio is the number 0
IsZero(ratio) ==
    \/ ratio.kind = "zero"
    \/ ratio.kind = "ratio" /\ RSum(ratio.returns) = Zero

\* returns.mean() / returns.std() if returns.std() != 0 else 0, with pandas'
\* sample standard deviation (ddof = 1), which is nan for fewer than two values
SharpeRatio(returns) ==
    IF Len(returns) < 2 THEN [kind |-> "nan"]
    ELSE IF AllEqual(returns) THEN [kind |-> "zero"]
    ELSE Quotient(returns, 1, 1)

\* equity_curve.expanding().max(), entries lo..hi, peak being the maximum
\* before entry lo (computed by halves, which keeps the evaluation shallow)
RECURSIVE ExpandingMax(_, _, _, _)
ExpandingMax(curve, lo, hi, peak) ==
    IF lo = hi THEN <<RMax(peak, curve[lo])>>
    ELSE LET mid  == (lo + hi) \div 2
             left == ExpandingMax(curve, lo, mid, peak)
         IN  left \o ExpandingMax(curve, mid + 1, hi, left[Len(left)])

\* (equity_curve - rolling_max) / rolling_max
Drawdowns(curve) ==
    LET rolling_max == ExpandingMax(curve, 1, Len(curve), curve[1])
    IN  [k \in 1..Len(curve) |->
            IF curve[k] = rolling_max[k] THEN Zero
            ELSE RDiv(RSub(curve[k], rolling_max[k]), rolling_max[k])]

\* Series.min()
SeriesMin(s) ==
    LET values == {s[k] : k \in 1..Len(s)}
    IN  CHOOSE x \in values : \A y \in values : RLe(x, y)

\* mutant of WinningTrades: a trade that breaks even counts as a win
NonLosingTrades(pnls) == Len(SelectSeq(pnls, LAMBDA x : RLe(Zero, x)))

\* winning_trades: the number of trades with pnl > 0
WinningTrades(pnls) == Len(SelectSeq(pnls, LAMBDA x : RLt(Zero, x)))

\* BacktestEngine.calculate_metrics
CalculateMetrics(trade_log, curve, balance, initial_balance) ==
    IF trade_log = <<>>
    THEN [total_trades |-> 0, win_rate |-> Zero, profit_factor |-> Zero,
          sharpe_ratio |-> [kind |-> "zero"], max_drawdown |-> Zero,
          total_return |-> Zero]
    ELSE
      LET pnls           == [k \in 1..Len(trade_log) |-> trade_log[k].pnl]
          total_trades   == Len(trade_log)
          winning_trades == WinningTrades(pnls)
          win_rate       == Rat(winning_trades, total_trades)
          total_profit   == RSum(SelectSeq(pnls, LAMBDA x : RLt(Zero, x)))
          total_loss     == RAbs(RSum(SelectSeq(pnls, LAMBDA x : RLt(x, Zero))))
          returns        == [k \in 1..Len(trade_log) |-> trade_log[k].return_pct]
          max_drawdown   == SeriesMin(Drawdowns(curve))
      IN  [total_trades  |-> total_trades,
           win_rate      |-> RMul(win_rate, R(100)),
           profit_factor |-> IF total_loss # Zero
                             THEN RDiv(total_profit, total_loss) ELSE Infinity,
           sharpe_ratio  |-> SharpeRatio(returns),
           max_drawdown  |-> RMul(max_drawdown, R(100)),
           total_return  |->
               RMul(RDiv(RSub(balance, initial_balance), initial_balance), R(100))]

\* np.diff(equity_array) / equity_array[:-1]
StepReturns(curve) ==
    [k \in 1..(Len(curve) - 1) |-> RDiv(RSub(curve[k + 1], curve[k]), curve[k])]

\* np.mean(returns) / np.std(returns) * np.sqrt(252) if there are returns and
\* their (population) standard deviation is positive, else 0
AnnualisedSharpeRatio(returns) ==
    IF Len(returns) = 0 THEN [kind |-> "zero"]
    ELSE IF AllEqual(returns) THEN [kind |-> "zero"]
    ELSE Quotient(returns, 0, 252)

\* the max-drawdown loop of _calculate_metrics, from position k on
RECURSIVE MaxDrawdown(_, _, _, _)
MaxDrawdown(curve, k, peak, high) ==
    IF k > Len(curve) THEN high
    ELSE LET peak1    == IF RLt(peak, curve[k]) THEN curve[k] ELSE peak
             drawdown == RMul(RDiv(RSub(peak1, curve[k]), peak1), R(100))
         IN  MaxDrawdown(curve, k + 1, peak1, RMax(high, drawdown))

\* CoinGeckoBacktestEngine._calculate_metrics
CGCalculateMetrics(trade_log, curve) ==
    LET closed            == SelectSeq(trade_log,
                                 LAMBDA t : t.type \in {"close_long", "close_short"})
        total_trades      == Len(closed)
        profitable_trades == Len(SelectSeq(trade_log, LAMBDA t : RLt(Zero, t.pnl)))
    IN  [total_return    |-> RMul(RDiv(RSub(curve[Len(curve)], curve[1]), curve[1]),
                                  R(100)),
         total_trades    |-> total_trades,
         win_rate        |-> IF total_trades > 0
                             THEN RMul(Rat(profitable_trades, total_trades), R(100))
                             ELSE Zero,
         sharpe_ratio    |-> AnnualisedSharpeRatio(StepReturns(curve)),
         max_drawdown    |-> MaxDrawdown(curve, 1, curve[1], Zero),
         final_balance   |-> curve[Len(curve)],
         initial_balance |-> curve[1]]

\* the data is exhausted: the loop ends and run_backtest returns the metrics
Finish ==
    /\ mode \in {"backtest", "coingecko"}
    /\ pc = "run"
    /\ n >= quiet
    /\ pc' = "done"
    /\ metrics' = IF mode = "backtest"
                  THEN CalculateMetrics(trades, equity_curve, current_balance,
                                        InitialBalance)
                  ELSE CGCalculateMetrics(trades, equity_curve)
    /\ UNCHANGED <<mode, now, quiet, n, closes, rm, ml, current_balance,
                   current_position, trade, cg, trades, equity_curve, sig,
                   last_call, calls, strategy>>

-----------------------------------------------------------------------------
(* A client of RiskManager ("risk" mode): any sequence of its operations.  *)

\* calculate_position_size(account_balance, current_price, confidence); the
\* method never reads current_price
CalculatePositionSize ==
    /\ mode = "risk"
    /\ calls < MaxCalls
    /\ \E account_balance \in Balances, confidence \in Confidences :
        LET rm1 == UpdateDailyMetrics(rm, now)
        IN  /\ rm' = rm1
            /\ last_call' = [op |-> "calculate_position_size",
                             account_balance |-> account_balance,
                             confidence |-> confidence,
                             result |-> PositionSize(rm1, account_balance, confidence)]
    /\ calls' = calls + 1
    /\ UNCHANGED <<mode, pc, now, quiet, n, closes, ml, current_balance,
                   current_position, trade, cg, trades, equity_curve, sig,
                   metrics, strategy>>

\* can_open_position(symbol, account_balance, current_price); the method never
\* reads current_price
CanOpenPosition ==
    /\ mode = "risk"
    /\ calls < MaxCalls
    /\ \E symbol \in Symbols, account_balance \in Balances :
        LET rm1 == UpdateDailyMetrics(rm, now)
        IN  /\ rm' = rm1
            /\ last_call' = [op |-> "can_open_position", symbol |-> symbol,
                             account_balance |-> account_balance,
                             result |-> CanOpen(rm1, symbol, account_balance)]
    /\ calls' = calls + 1
    /\ UNCHANGED <<mode, pc, now, quiet, n, closes, ml, current_balance,
                   current_position, trade, cg, trades, equity_curve, sig,
                   metrics, strategy>>

\* update_position(symbol, entry_price, current_price, position_size)
UpdatePositionCall ==
    /\ mode = "risk"
    /\ calls < MaxCalls
    /\ \E symbol \in Symbols, entry_price \in Prices, current_price \in Prices,
          position_size \in Sizes :
        /\ rm' = UpdatePosition(rm, symbol, entry_price, current_price,
                                position_size, now)
        /\ last_call' = [op |-> "update_position", symbol |-> symbol,
                         entry_price |-> entry_price,
                         current_price |-> current_price,
                         position_size |-> position_size]
    /\ calls' = calls + 1
    /\ UNCHANGED <<mode, pc, now, quiet, n, closes, ml, current_balance,
                   current_position, trade, cg, trades, equity_curve, sig,
                   metrics, strategy>>

\* close_position(symbol, exit_price)
ClosePositionCall ==
    /\ mode = "risk"
    /\ calls < MaxCalls
    /\ \E symbol \in Symbols, exit_price \in Prices :
        IF HasPosition(rm, symbol)
        THEN /\ rm' = ClosePosition(rm, symbol, exit_price)
             /\ last_call' = [op |-> "close_position", symbol |-> symbol,
                              exit_price |-> exit_price, found |-> TRUE,
                              position |-> PositionOf(rm, symbol),
                              result |-> PositionPnl(PositionOf(rm, symbol),
                                                     exit_price)]
        ELSE /\ rm' = rm
             /\ last_call' = [op |-> "close_position", symbol |-> symbol,
                              exit_price |-> exit_price, found |-> FALSE,
                              result |-> NoPosition]
    /\ calls' = calls + 1
    /\ UNCHANGED <<mode, pc, now, quiet, n, closes, ml, current_balance,
                   current_position, trade, cg, trades, equity_curve, sig,
                   metrics, strategy>>

-----------------------------------------------------------------------------
(* A client of MLModel ("model" mode).                                     *)

\* train(df) on a window of `len` rows
TrainCall ==
    /\ mode = "model"
    /\ calls < MaxCalls
    /\ \E len \in TrainLengths, raises \in BOOLEAN :
        /\ ml' = IF TrainRaises(ml, len, raises) THEN ml ELSE Train(ml, len, now)
        /\ last_call' = [op |-> "train", len |-> len,
                         raised |-> TrainRaises(ml, len, raises)]
    /\ calls' = calls + 1
    /\ UNCHANGED <<mode, pc, now, quiet, n, closes, rm, current_balance,
                   current_position, trade, cg, trades, equity_curve, sig, metrics, strategy>>

\* predict(df)
PredictCall ==
    /\ mode = "model"
    /\ calls < MaxCalls
    /\ \E outcome \in MLOutcomes, raises \in BOOLEAN :
        last_call' = [op |-> "predict", raised |-> FALSE,
                      result |-> Predict(ml, outcome, raises)]
    /\ calls' = calls + 1
    /\ UNCHANGED <<mode, pc, now, quiet, n, closes, rm, ml, current_balance,
                   current_position, trade, cg, trades, equity_curve, sig, metrics, strategy>>

-----------------------------------------------------------------------------
(* A client of BollingerBandStrategy ("strategy" mode).                    *)

\* generate_signals followed by get_trade_recommendation on a frame that has one
\* more row than the one before
GenerateSignals ==
    /\ mode = "strategy"
    /\ n < MaxRows
    /\ \E close \in Prices :
        LET hist == Slide(closes, close)
        IN  /\ closes' = hist
            /\ n' = n + 1
            /\ sig' = [macd |-> TradeRecommendation(hist)[1],
                       confidence |-> TradeRecommendation(hist)[2],
                       ml |-> 0, final |-> 0]
    /\ UNCHANGED <<mode, pc, now, quiet, rm, ml, current_balance,
                   current_position, trade, cg, trades, equity_curve, last_call,
                   calls, metrics, strategy>>

\* get_trade_recommendation on the frame as it is (empty at first)
GetTradeRecommendation ==
    /\ mode = "strategy"
    /\ sig' = [macd |-> TradeRecommendation(closes)[1],
               confidence |-> TradeRecommendation(closes)[2],
               ml |-> 0, final |-> 0]
    /\ UNCHANGED <<mode, pc, now, quiet, n, closes, rm, ml, current_balance,
                   current_position, trade, cg, trades, equity_curve, last_call,
                   calls, metrics, strategy>>

Next ==
    \/ Tick
    \/ Begin
    \/ BTStep
    \/ CGStep
    \/ Finish
    \/ CalculatePositionSize
    \/ CanOpenPosition
    \/ UpdatePositionCall
    \/ ClosePositionCall
    \/ TrainCall
    \/ PredictCall
    \/ GenerateSignals
    \/ GetTradeRecommendation

Spec == Init /\ [][Next]_vars

-----------------------------------------------------------------------------
(* Claims.                                                                 *)

InLoop == mode \in {"backtest", "coingecko"} /\ pc \in {"run", "done"}
MinHistory == IF mode = "backtest" THEN MinHistoryBT ELSE MinHistoryCG
Flat == IF mode = "coingecko" THEN current_position = 0 ELSE current_position = Zero

\* C1: in both backtest loops, after n candles have been processed the equity
\* curve has exactly n + 1 entries, the first being the initial balance; a candle
\* skipped during the warm-up still appends one entry.
C1_EquityCurveLength ==
    InLoop => Len(equity_curve) = n + 1 /\ equity_curve[1] = InitialBalance

\* C2: in BacktestEngine.run_backtest every position entry increments the
\* RiskManager's daily trade counter (from its value after the daily update).
C2_EntryIsCounted ==
    [][ (mode = "backtest" /\ pc = "run" /\ current_position = Zero
            /\ current_position' # Zero)
        => rm'.daily_trades = UpdateDailyMetrics(rm, now).daily_trades + 1 ]_vars

\* a step of BacktestEngine's loop that sizes a position, and so runs
\* update_daily_metrics
SizingStep ==
    /\ mode = "backtest" /\ pc = "run" /\ n' = n + 1
    /\ ~SkipCandle(n', MinHistoryBT)
    /\ current_position = Zero
    /\ sig'.final # 0

\* C3: the daily state follows the simulated time: after update_daily_metrics has
\* run while candle i is processed, the day the counters apply to is the day of
\* candle i; they were reset to zero if that day is new, and nothing changed if
\* it is not.
C3_ResetFollowsCandleDay ==
    [][ SizingStep =>
          /\ rm'.last_reset = CandleDay(n)
          /\ (rm.last_reset = CandleDay(n) => rm' = rm)
          /\ (rm.last_reset # CandleDay(n) =>
                 rm'.daily_trades = 0 /\ rm'.daily_pnl = Zero) ]_vars

\* C4: the fused signal is Long if either source is Long, otherwise Short if
\* either source is Short, otherwise Neutral.
C4_Fusion ==
    (mode = "backtest" /\ InLoop /\ n >= MinHistoryBT) =>
        /\ sig.macd \in {-1, 0, 1} /\ sig.ml \in {-1, 0, 1}
        /\ (sig.macd = 1 \/ sig.ml = 1) => sig.final = 1
        /\ (sig.macd # 1 /\ sig.ml # 1 /\ (sig.macd = -1 \/ sig.ml = -1))
              => sig.final = -1
        /\ (sig.macd = 0 /\ sig.ml = 0) => sig.final = 0

\* C4 witness: the indicator says Short, the model says Long: fused Long.
C4_Witness ==
    mode = "backtest" /\ InLoop /\ sig.macd = -1 /\ sig.ml = 1 /\ sig.final = 1

\* C5: closing a position of size s (long when current_position > 0) entered at
\* e at exit price x appends a trade with pnl = s * (x - e) for a long and
\* s * (e - x) for a short and return% = pnl / (s * e) * 100, and changes the
\* balance by exactly pnl.
C5_ExitArithmetic ==
    [][ (mode = "backtest" /\ pc = "run" /\ current_position # Zero
            /\ current_position' = Zero)
        => LET s    == RAbs(current_position)
               e    == R(trade.entry_price)
               x    == R(closes'[Len(closes')])
               long == RLt(Zero, current_position)
               done == trades'[Len(trades')]
           IN  /\ Len(trades') = Len(trades) + 1
               /\ done.entry_price = trade.entry_price
               /\ done.exit_price = closes'[Len(closes')]
               /\ done.pnl = IF long THEN RMul(s, RSub(x, e))
                                     ELSE RMul(s, RSub(e, x))
               /\ RMul(done.return_pct, RMul(s, e)) = RMul(done.pnl, R(100))
               /\ RSub(current_balance', current_balance) = done.pnl ]_vars

\* C5 witness: a long of size 50 entered at 100 and closed at 130: pnl 1500,
\* return 30 %, balance 1000 -> 2500.
C5_Witness ==
    /\ mode = "backtest" /\ InLoop /\ Len(trades) = 1
    /\ trades[1].direction = "long" /\ trades[1].position_size = R(50)
    /\ trades[1].entry_price = 100 /\ trades[1].exit_price = 130
    /\ trades[1].pnl = R(1500) /\ trades[1].return_pct = R(30)
    /\ current_balance = R(2500)

\* C6: while fewer candles than the warm-up length have been processed, no
\* position was opened, no trade completed, the balance is the initial balance
\* and every entry of the equity curve is the initial balance.
C6_WarmUp ==
    (InLoop /\ n < MinHistory) =>
        /\ Flat
        /\ trade = NoTrade
        /\ cg.position_size = Zero
        /\ trades = <<>>
        /\ current_balance = InitialBalance
        /\ \A k \in 1..Len(equity_curve) : equity_curve[k] = InitialBalance

\* C6 witness: a run of BacktestEngine over 25 candles has ended.
C6_Witness ==
    mode = "backtest" /\ pc = "done" /\ n = MinHistoryBT - 1 /\ trades = <<>>

\* C7: can_open_position returns false exactly when a position is recorded for
\* the symbol, or the daily trade count has reached max_daily_trades, or the
\* daily pnl is <= -(max_daily_loss_percentage * balance / 100).
C7_CanOpen ==
    (mode = "risk" /\ last_call.op = "can_open_position") =>
        (last_call.result = FALSE) <=>
            \/ \E p \in rm.open_positions : p.symbol = last_call.symbol
            \/ rm.daily_trades >= rm.max_daily_trades
            \/ RLe(RMul(rm.daily_pnl, R(100)),
                   RNeg(RMul(R(rm.max_daily_loss), last_call.account_balance)))

\* C7 witness: refused for the trade count alone.
C7_Witness ==
    /\ mode = "risk" /\ last_call.op = "can_open_position"
    /\ last_call.result = FALSE
    /\ rm.daily_trades = rm.max_daily_trades
    /\ ~HasPosition(rm, last_call.symbol)
    /\ rm.daily_pnl = Zero /\ last_call.account_balance = R(1000)

\* C8: for a fixed balance and RiskManager state the position size is
\* non-decreasing in confidence, and it never exceeds the balance.
C8_MonotoneInConfidence ==
    mode = "risk" =>
        \A b \in Balances, c1 \in Confidences, c2 \in Confidences :
            /\ RLe(c1, c2) => RLe(PositionSize(rm, b, c1), PositionSize(rm, b, c2))
            /\ RLe(PositionSize(rm, b, c1), b)

\* C9: below the daily trade limit calculate_position_size returns
\* min(balance, balance * (base + (max - base) * confidence) / 100); at the limit
\* it returns 0.
C9_PositionSize ==
    (mode = "risk" /\ last_call.op = "calculate_position_size") =>
        LET b    == last_call.account_balance
            pct  == RAdd(R(rm.base_risk),
                         RMul(R(rm.max_risk - rm.base_risk), last_call.confidence))
            part == RDiv(RMul(b, pct), R(100))
        IN  last_call.result =
                IF rm.daily_trades < rm.max_daily_trades
                THEN (IF RLe(b, part) THEN b ELSE part)
                ELSE Zero

\* C9 witness: balance 1000, base 1 %, max 5 %, confidence 1.0 gives 50.
C9_Witness ==
    /\ mode = "risk" /\ last_call.op = "calculate_position_size"
    /\ rm.base_risk = 1 /\ rm.max_risk = 5
    /\ last_call.account_balance = R(1000) /\ last_call.confidence = R(1)
    /\ last_call.result = R(50)

\* C10: a position closed at its entry price yields pnl 0 and return% 0 and leaves
\* the balance and the daily pnl unchanged, in BacktestEngine's loop and through
\* update_position followed by close_position.
C10_RoundTrip ==
    [][ /\ (mode = "backtest" /\ Len(trades') = Len(trades) + 1
              /\ trades'[Len(trades')].exit_price = trades'[Len(trades')].entry_price)
           => /\ trades'[Len(trades')].pnl = Zero
              /\ trades'[Len(trades')].return_pct = Zero
              /\ current_balance' = current_balance
              /\ rm'.daily_pnl = rm.daily_pnl
        /\ (mode = "risk" /\ calls' = calls + 1
              /\ last_call'.op = "close_position" /\ last_call'.found
              /\ last_call'.exit_price = last_call'.position.entry_price)
           => /\ last_call'.result = Zero
              /\ rm'.daily_pnl = rm.daily_pnl
              /\ ~HasPosition(rm', last_call'.symbol) ]_vars

\* C10 witness: a long position of BacktestEngine closed at its entry price.
C10_Witness ==
    /\ mode = "backtest" /\ InLoop /\ Len(trades) >= 1
    /\ LET t == trades[Len(trades)]
       IN  /\ t.direction = "long" /\ t.position_size # Zero
           /\ t.exit_price = t.entry_price
           /\ t.pnl = Zero /\ t.return_pct = Zero

\* the number of trades completed (closed) during the run
CompletedTrades ==
    IF mode = "backtest" THEN Len(trades)
    ELSE Len(SelectSeq(trades, LAMBDA t : t.type \in {"close_long", "close_short"}))

\* C11: in both backtest variants, when no trade was completed during the run
\* (a position may still be open), the metrics record reports total_trades = 0
\* and every derived metric it contains equal to 0.
C11_NoTradeMetrics ==
    (InLoop /\ pc = "done" /\ CompletedTrades = 0) =>
        /\ metrics.total_trades = 0
        /\ metrics.win_rate = Zero
        /\ IsZero(metrics.sharpe_ratio)
        /\ metrics.max_drawdown = Zero
        /\ metrics.total_return = Zero
        /\ mode = "backtest" => metrics.profit_factor = Zero

\* (running_peak - value) / running_peak * 100
DrawdownPct(running_peak, value) ==
    RMul(RDiv(RSub(running_peak, value), running_peak), R(100))

\* C12: in both backtest variants the reported max_drawdown is the maximum over
\* the equity curve of (running_peak - value) / running_peak * 100, a
\* non-negative percentage, and it is 0 when the curve never decreases.
C12_MaxDrawdown ==
    (InLoop /\ pc = "done") =>
        LET peaks == ExpandingMax(equity_curve, 1, Len(equity_curve), equity_curve[1])
        IN  /\ RLe(Zero, metrics.max_drawdown)
            /\ \A k \in 1..Len(equity_curve) :
                  RLe(DrawdownPct(peaks[k], equity_curve[k]), metrics.max_drawdown)
            /\ \E k \in 1..Len(equity_curve) :
                  DrawdownPct(peaks[k], equity_curve[k]) = metrics.max_drawdown
            /\ (\A k \in 1..(Len(equity_curve) - 1) :
                    RLe(equity_curve[k], equity_curve[k + 1]))
                  => metrics.max_drawdown = Zero

\* the trade log has a winning trade and no losing trade
NoLossSomeWin ==
    /\ \A k \in 1..Len(trades) : ~RLt(trades[k].pnl, Zero)
    /\ \E k \in 1..Len(trades) : RLt(Zero, trades[k].pnl)

\* C13 as stated: with no losing trade and at least one winning trade,
\* BacktestEngine.calculate_metrics reports profit_factor = +infinity and
\* win_rate = 100 %.
C13_AsStated ==
    (mode = "backtest" /\ pc = "done" /\ NoLossSomeWin) =>
        /\ metrics.profit_factor = Infinity
        /\ metrics.win_rate = R(100)

\* C13 (amended): with no losing trade and at least one winning trade,
\* BacktestEngine.calculate_metrics reports profit_factor = +infinity and
\* win_rate = 100 * (trades with pnl > 0) / total_trades, which is 100 % exactly
\* when no trade of the log broke even.
C13_NoLosingTrade ==
    (mode = "backtest" /\ pc = "done" /\ NoLossSomeWin) =>
        LET winners == {k \in 1..Len(trades) : RLt(Zero, trades[k].pnl)}
        IN  /\ metrics.profit_factor = Infinity
            /\ metrics.total_trades = Len(trades)
            /\ RMul(metrics.win_rate, R(Len(trades))) = R(100 * Cardinality(winners))
            /\ metrics.win_rate = R(100) <=>
                  \A k \in 1..Len(trades) : trades[k].pnl # Zero

\* C13 witness: a run whose only trade is a winner: profit factor +infinity,
\* win rate 100 %.
C13_Witness ==
    /\ mode = "backtest" /\ pc = "done" /\ NoLossSomeWin
    /\ Len(trades) = 1
    /\ metrics.profit_factor = Infinity /\ metrics.win_rate = R(100)

\* C14: for every non-empty trade log the sharpe_ratio of
\* BacktestEngine.calculate_metrics is a defined number: mean / stddev of the
\* trades' return% when the standard deviation is non-zero, and 0 otherwise.
C14_SharpeDefined ==
    (mode = "backtest" /\ pc = "done" /\ trades # <<>>) =>
        LET returns == [k \in 1..Len(trades) |-> trades[k].return_pct]
            sharpe  == metrics.sharpe_ratio
        IN  /\ sharpe.kind \in {"zero", "ratio"}
            /\ sharpe.kind = "ratio" =>
                  /\ sharpe.returns = returns /\ sharpe.periods = 1
                  /\ \E j, k \in 1..Len(returns) : returns[j] # returns[k]
            /\ sharpe.kind = "zero" =>
                  \A j, k \in 1..Len(returns) : returns[j] = returns[k]

\* C15: no failure inside the predictive model reaches the simulation loop: an
\* untrained model predicts Neutral, and run_backtest is never left by an
\* exception raised inside MLModel (through train or through predict).
C15_ModelFailuresContained ==
    mode = "backtest" =>
        /\ pc # "failed"
        /\ (pc = "run" /\ ~ml.is_trained) => sig.ml = 0

\* C16: MLModel.train(window) leaves the model state unchanged whenever the
\* window has fewer than min_samples labeled rows, the last LabelHorizon rows of
\* the window having no label.
C16_TrainNeedsLabeledRows ==
    [][ (mode = "model" /\ calls' = calls + 1 /\ last_call'.op = "train"
            /\ last_call'.len - LabelHorizon < ml.min_samples)
        => ml' = ml ]_vars

\* the strategy's latest signal, sig.macd, was computed on the window `closes`
\* of at least Window closes
SignalOnFullWindow ==
    \/ mode \in {"backtest", "coingecko"} /\ pc \in {"run", "done"} /\ n >= MinHistory
    \/ mode = "strategy" /\ n >= Window

\* Window * (close - middle band) of the latest close, and Window^3 * variance
\* of the window's closes
ScaledDistance == Window * closes[Len(closes)] - SumSeq(closes)
ScaledSquares ==
    SumSeq([j \in 1..Len(closes) |->
               (Window * closes[j] - SumSeq(closes)) * (Window * closes[j] - SumSeq(closes))])
\* latest close <= middle band (the mean of the window)
CloseAtOrBelowMiddle == ScaledDistance <= 0
\* latest close >= upper band (mean + (DevNum / DevDen) * standard deviation)
CloseAtOrAboveUpper ==
    /\ ScaledDistance >= 0
    /\ Window * DevDen * DevDen * ScaledDistance * ScaledDistance
           >= DevNum * DevNum * ScaledSquares

\* C17 as stated: Long when the latest close <= the middle band, Short when it
\* is >= the upper band, Neutral otherwise.
C17_AsStated ==
    SignalOnFullWindow =>
        /\ CloseAtOrBelowMiddle => sig.macd = 1
        /\ CloseAtOrAboveUpper => sig.macd = -1
        /\ (~CloseAtOrBelowMiddle /\ ~CloseAtOrAboveUpper) => sig.macd = 0

\* C17 (amended): Short when the latest close >= the upper band, otherwise Long
\* when it is <= the middle band, otherwise Neutral; when both hold (the closes
\* of the window are all equal and the bands coincide) the signal is Short.
C17_Signal ==
    SignalOnFullWindow =>
        /\ CloseAtOrAboveUpper => sig.macd = -1
        /\ (CloseAtOrBelowMiddle /\ ~CloseAtOrAboveUpper) => sig.macd = 1
        /\ (~CloseAtOrBelowMiddle /\ ~CloseAtOrAboveUpper) => sig.macd = 0

\* C17 witness: a window of equal closes, at once at the middle and at the upper
\* band: Short.
C17_Witness ==
    /\ mode = "strategy" /\ n >= Window
    /\ CloseAtOrBelowMiddle /\ CloseAtOrAboveUpper
    /\ \A j \in 1..Len(closes) : closes[j] = closes[1]
    /\ sig.macd = -1

\* get_trade_recommendation has returned sig.macd with sig.confidence
Recommended ==
    \/ mode = "backtest" /\ pc \in {"run", "done"} /\ n >= MinHistoryBT
    \/ mode = "strategy" /\ sig # NoSignals

\* C18: the signal of generate_signals is in {-1, 0, 1}, and
\* get_trade_recommendation returns it with a confidence in [0, 1] that is 1.0
\* when the signal is not neutral and 0.0 when it is.
C18_SignalAndConfidence ==
    Recommended =>
        /\ sig.macd \in {-1, 0, 1}
        /\ RLe(Zero, sig.confidence) /\ RLe(sig.confidence, R(1))
        /\ sig.macd # 0 => sig.confidence = R(1)
        /\ sig.macd = 0 => sig.confidence = Zero

\* C18 witness: a neutral recommendation on a window with defined bands (the
\* latest close lies between the middle and the upper band).
C18_Witness ==
    /\ mode = "strategy" /\ n >= Window
    /\ ~CloseAtOrBelowMiddle /\ ~CloseAtOrAboveUpper
    /\ sig.macd = 0 /\ sig.confidence = Zero

\* C19: close_position(symbol, exit_price) on a recorded position returns
\* pnl = size * (exit_price - entry_price) / entry_price, adds exactly that to
\* the daily pnl and removes the position record; with no position recorded for
\* the symbol it returns the no-position sentinel and leaves the daily pnl, the
\* daily trade count and the position map unchanged.
C19_ClosePosition ==
    [][ (mode = "risk" /\ calls' = calls + 1 /\ last_call'.op = "close_position")
        => LET symbol   == last_call'.symbol
               recorded == {p \in rm.open_positions : p.symbol = symbol}
           IN  IF recorded # {}
               THEN \E p \in recorded :
                      /\ RMul(last_call'.result, R(p.entry_price)) =
                            RMul(p.position_size,
                                 R(last_call'.exit_price - p.entry_price))
                      /\ RSub(rm'.daily_pnl, rm.daily_pnl) = last_call'.result
                      /\ rm'.open_positions = rm.open_positions \ recorded
                      /\ rm'.daily_trades = rm.daily_trades
               ELSE /\ last_call'.result = NoPosition
                    /\ rm'.daily_pnl = rm.daily_pnl
                    /\ rm'.daily_trades = rm.daily_trades
                    /\ rm'.open_positions = rm.open_positions ]_vars

\* C19 witness: a position of size 50 entered at 100 was closed at 130: pnl 15,
\* daily pnl 15, no record left for the symbol.
C19_Witness ==
    /\ mode = "risk" /\ last_call.op = "close_position" /\ last_call.found
    /\ last_call.position.position_size = R(50)
    /\ last_call.position.entry_price = 100 /\ last_call.exit_price = 130
    /\ last_call.result = R(15) /\ rm.daily_pnl = R(15)
    /\ ~HasPosition(rm, last_call.symbol)

\* C20: a risk component with base risk > max risk fails at construction, so no
\* operation is ever executed on one.
C20_MisconfigurationRejected ==
    (mode = "risk" /\ calls > 0) => rm.base_risk <= rm.max_risk

\* C21: a BollingerBandStrategy constructed with a configuration takes its
\* window length and its deviation multiplier from that configuration.
C21_ConfiguredParameters ==
    mode = "strategy" =>
        /\ strategy.window = strategy.config.bb_window
        /\ strategy.window_dev = strategy.config.bb_deviation

\* a step of BacktestEngine's loop past the warm-up that ran to its end
TradingStep ==
    /\ mode = "backtest" /\ pc = "run" /\ pc' = "run" /\ n' = n + 1
    /\ ~SkipCandle(n', MinHistoryBT)

\* C22: in BacktestEngine.run_backtest, at a step where the position is long and
\* the fused signal is Short, or the position is short and the fused signal is
\* Long, exactly one completed trade carrying the entry price and time of the
\* position is appended to the trade log, its pnl is added to the balance, and the
\* position is flat at the end of the step, no new position being opened.
C22_ExitOnOppositeSignal ==
    [][ (/\ TradingStep
         /\ \/ RLt(Zero, current_position) /\ sig'.final = -1
            \/ RLt(current_position, Zero) /\ sig'.final = 1)
        => /\ Len(trades') = Len(trades) + 1
           /\ SubSeq(trades', 1, Len(trades)) = trades
           /\ LET done == trades'[Len(trades')]
              IN  /\ done.entry_price = trade.entry_price
                  /\ done.entry_date = trade.entry_date
                  /\ done.exit_date = n
                  /\ done.exit_price = closes'[Len(closes')]
                  /\ current_balance' = RAdd(current_balance, done.pnl)
           /\ current_position' = Zero
           /\ rm' = rm ]_vars

\* C22 witness: a short position entered on candle 25 has just been closed on a
\* Long signal: one trade in the log, the position flat again.
C22_Witness ==
    /\ mode = "backtest" /\ pc = "run" /\ n > MinHistoryBT
    /\ sig.final = 1 /\ current_position = Zero
    /\ Len(trades) = 1
    /\ trades[1].direction = "short"
    /\ trades[1].entry_date = MinHistoryBT - 1 /\ trades[1].exit_date = n - 1
    /\ current_balance = RAdd(InitialBalance, trades[1].pnl)

\* hours between two calendar days of the wall clock
HoursPerDay == 24
\* MLModel.should_retrain at wall-clock day `today` (to the resolution of a
\* day: the hours since the last training are those between the two days)
ShouldRetrain(m, today) ==
    \/ m.last_training_time = -1
    \/ (today - m.last_training_time) * HoursPerDay >= RetrainInterval

\* C23: at every step of BacktestEngine's loop past the warm-up, train(history)
\* is called if and only if should_retrain() holds and the history has at least
\* min_samples rows; an untrained model is trained at the first step at which
\* enough history exists. (A call of train on enough rows either sets the
\* training time and is_trained or raises.)
C23_TrainsWhenShouldRetrain ==
    [][ (mode = "backtest" /\ pc = "run" /\ n' = n + 1
            /\ ~SkipCandle(n', MinHistoryBT))
        => LET called == pc' = "failed" \/ ml' # ml
               due    == ShouldRetrain(ml, now) /\ n' >= ml.min_samples
           IN  /\ called <=> due
               /\ (~ml.is_trained /\ n' >= ml.min_samples)
                     => (pc' = "failed" \/ ml'.is_trained) ]_vars

\* the unrealized pnl of the open position valued at the latest close
UnrealizedPnl ==
    IF mode = "backtest"
    THEN RMul(current_position, R(closes[Len(closes)] - trade.entry_price))
    ELSE IF current_position > 0
    THEN RMul(R(closes[Len(closes)] - cg.entry_price), cg.position_size)
    ELSE RMul(R(cg.entry_price - closes[Len(closes)]), cg.position_size)

\* C24: in both backtest variants the value appended to the equity curve at a
\* step is the mark-to-market equity: the balance when flat, the balance plus
\* the unrealized pnl of the open position at the current close otherwise.
C24_MarkToMarket ==
    (InLoop /\ n >= MinHistory) =>
        equity_curve[Len(equity_curve)] =
            IF Flat THEN current_balance ELSE RAdd(current_balance, UnrealizedPnl)

\* a record of the trade log describes a completed (closed) trade
Completed(t) ==
    IF mode = "backtest" THEN "exit_price" \in DOMAIN t
    ELSE t.type \in {"close_long", "close_short"}

\* C25: in both backtest variants opening a position appends nothing to the
\* trade log: the log holds only completed trades, and a step in which no
\* position is closed leaves it as it is.
C25_OnlyCompletedTrades ==
    [][ (InLoop /\ n' = n + 1) =>
          /\ \A k \in 1..Len(trades') : Completed(trades'[k])
          /\ (Flat => trades' = trades) ]_vars

\* the pnl of the records of a trade log, in order
Pnls(trade_log) == [k \in 1..Len(trade_log) |-> trade_log[k].pnl]

\* C26: at the end of every step of either backtest loop the balance equals the
\* initial balance plus the sum of the pnl of all records of the trade log, and
\* a step that closes no position leaves the balance unchanged.
C26_BalanceIsInitialPlusPnl ==
    [][ (InLoop /\ n' = n + 1) =>
          /\ current_balance' = RAdd(InitialBalance, RSum(Pnls(trades')))
          /\ (Flat \/ current_position' = current_position)
                => current_balance' = current_balance ]_vars

\* C26 witness: a run of CoinGeckoBacktestEngine that has closed a long and then
\* a short, both at a profit: the log holds the two closing records among the
\* opening ones, and the balance is the initial balance plus both pnl.
C26_Witness ==
    /\ mode = "coingecko" /\ pc = "run"
    /\ \E j, k \in 1..Len(trades) :
          /\ j < k
          /\ trades[j].type = "close_long" /\ RLt(Zero, trades[j].pnl)
          /\ trades[k].type = "close_short" /\ RLt(Zero, trades[k].pnl)
          /\ current_balance =
                RAdd(InitialBalance, RAdd(trades[j].pnl, trades[k].pnl))

\* C27: after any sequence of RiskManager operations, interleaved with day
\* rollovers, the daily trade count never exceeds max_daily_trades.
C27_DailyTradesWithinLimit ==
    mode = "risk" => rm.daily_trades <= rm.max_daily_trades

\* the positions recorded on the current day that are still open
RecordedToday == {p \in rm'.open_positions : p.entry_time = now}

\* C28: the daily trade count and the daily pnl always describe the current
\* calendar day: after every RiskManager operation the day the counters apply to
\* is the current day, and the positions recorded on the current day are counted
\* in the daily trade count, whichever operation comes first after midnight.
C28_CountersDescribeToday ==
    [][ (mode = "risk" /\ calls' = calls + 1) =>
          /\ rm'.last_reset = now
          /\ rm'.daily_trades >= Cardinality(RecordedToday) ]_vars

\* C29: for every candle sequence with positive prices and a positive initial
\* balance the balance of BacktestEngine.run_backtest never becomes negative.
C29_BalanceNeverNegative ==
    mode = "backtest" => RLe(Zero, current_balance)

\* a step of CoinGeckoBacktestEngine's loop past the warm-up
CGTradingStep ==
    /\ mode = "coingecko" /\ pc = "run" /\ n' = n + 1
    /\ ~SkipCandle(n', MinHistoryCG)

\* C30: in CoinGeckoBacktestEngine, once the first position has been opened the
\* engine is never flat again: a buy signal while short, or a sell signal while
\* long, closes the position and opens the opposite one in the same step at the
\* same price; a signal in the direction held (or none) changes nothing; so the
\* directions of successive positions alternate.
C30_NeverFlatAgain ==
    [][ CGTradingStep =>
          LET signal   == sig'.macd
              close    == closes'[Len(closes')]
              opposite == current_position # 0 /\ signal = -current_position
          IN  /\ current_position # 0 => current_position' # 0
              /\ opposite =>
                    /\ current_position' = -current_position
                    /\ Len(trades') = Len(trades) + 2
                    /\ SubSeq(trades', 1, Len(trades)) = trades
                    /\ LET closing == trades'[Len(trades') - 1]
                           opening == trades'[Len(trades')]
                       IN  /\ closing.type = IF current_position > 0
                                             THEN "close_long" ELSE "close_short"
                           /\ opening.type = IF current_position > 0
                                             THEN "sell" ELSE "buy"
                           /\ closing.time = n /\ opening.time = n
                           /\ closing.price = close /\ opening.price = close
                    /\ cg'.entry_price = close
              /\ (current_position # 0 /\ ~opposite) =>
                    UNCHANGED <<current_position, cg, trades, current_balance>>
              /\ current_position' # current_position =>
                    (current_position = 0 \/ current_position' = -current_position)
        ]_vars

\* C30 witness: a long has just been closed on a sell signal and a short opened
\* on the same candle at the same price.
C30_Witness ==
    /\ mode = "coingecko" /\ pc = "run" /\ Len(trades) >= 3
    /\ current_position = -1 /\ sig.macd = -1
    /\ trades[Len(trades) - 1].type = "close_long"
    /\ trades[Len(trades)].type = "sell"
    /\ trades[Len(trades)].time = n - 1
    /\ trades[Len(trades) - 1].time = n - 1
    /\ trades[Len(trades)].price = trades[Len(trades) - 1].price
    /\ cg.entry_price = closes[Len(closes)]

====
